---- MODULE Spec2Model ----
(***************************************************************************)
(* Model of the ccc-fb-generator core: the RateLimiter durable object and  *)
(* RateLimitService (src/src/services/rate-limiter.ts), the scheduling     *)
(* operations of                                                           *)
(* DatabaseService (src/unnamed/part_005), the posting tick                *)
(* (src/src/workers/scheduled.ts), FacebookService publishing              *)
(* (src/src/services/facebook.ts) and ContentDiscoveryService              *)
(* (src/src/services/content-discovery.ts).                                *)
(***************************************************************************)
EXTENDS Integers, Sequences, FiniteSets, TLC

(***************************************************************************)
(* Bounds of the model.                                                    *)
(***************************************************************************)
\* number of clock ticks a behaviour may take
MaxTicks == 2
\* number of check/reset requests a behaviour may submit to the limiter
MaxOps == 3
\* largest maxRequests a caller passes
MaxM == 2

\* one clock tick, in milliseconds (half a second)
TickMs == 1000 \div 2
\* the rate-limit keys callers use
Keys == {"facebook:feed"}
\* the windowMs values callers pass
Windows == {500, 1500}
\* the concurrent requests (fetch handlers) the durable object may hold
Procs == {"p1", "p2"}

\* rows the scheduling_queue table may hold
MaxQueue == 2
\* largest retry_count a row may reach
MaxRetryCount == 2
\* number of database operations and posting ticks a behaviour may run
MaxDbOps == 4
\* the content ids in use
ContentIds == {"c1", "c2"}
\* the scheduled_time values callers pass
ScheduleTimes == {0, 1000}
\* number of publish attempts (createPost / createPhotoPost calls) of a behaviour
MaxPublish == 3
\* the largest maxItems a discoverContent call passes
MaxItems == 3
\* the ages, in seconds, of the Reddit cache entries found at the start
CacheAges == {1800, 3600}
\* the longest content array passed to filterContent
MaxFilterLen == 2
\* the longest concatenation of source results that is sorted
MaxRankLen == 3
\* the entries the Reddit cache may hold for one subreddit before a run
MaxCacheEntries == 2

VARIABLES
    clock,      \* Date.now()
    requests,   \* RateLimiter.requests: key -> window object (NoWindow: no entry)
    storage,    \* state.storage: key -> stored window (NoWindow: no entry)
    pc,         \* per request: where its handler is suspended
    op,         \* per request: its arguments and the Date.now() it captured
    cur,        \* per request: the object its local `current` refers to
    attached,   \* per request: `current` is the very object held by the map
    loaded,     \* per request: the reply of state.storage.get in flight
    last,       \* history: the request answered last and its answer
    opsStarted, \* requests submitted so far
    winR,       \* history: resetTime carried by the latest allowed answer of a key
    winGrants,  \* history: allowed answers that carried winR
    mUsed,      \* history: the maxRequests values used on a key since its last reset
    fresh,      \* history: a reset of the key completed and no check started since
    openW,      \* history: the windowMs of the check that opened the key's window
    svcPc,      \* RateLimitService.checkRateLimit: idle, or waiting for the durable object
    svcOp,      \* its key and config
    svcRes,     \* what it returned last
    svcCause,   \* history: how the durable object call of that result ended
    content,    \* table content: id -> row (status "none": no row)
    queue,      \* table scheduling_queue: rows in id order (AUTOINCREMENT)
    dbPc,       \* "schedule" while scheduleContent is between its two writes
    dbArg,      \* the contentId of the scheduleContent in progress
    postingRuns,\* posting ticks handled so far
    tickItems,  \* the queue ids the last posting tick processed, in its order
    dbOps,      \* database operations and posting ticks started so far
    fbPosts,    \* Facebook page: posts created on /feed, per content
    fbPhotos,   \* Facebook page: unpublished photos uploaded, per content
    fbKeys,     \* Facebook: the idempotency keys of the requests it has served
    pubPc,      \* per content: where its publish attempt is suspended
    pubReq,     \* per content: the body of the POST /feed in flight
    pubRes,     \* per content: how its last publish attempt ended
    pubTries,   \* publish attempts started so far
    dPc,        \* discoverContent: idle, running or done
    dMaxItems,  \* its maxItems argument
    dSources,   \* its sources argument
    settled,    \* per source: the state of its promise
    redditIdx,  \* discoverFromReddit: the subreddit it is at, 0 when not running
    redditDiscovered,   \* discoverFromReddit: its discovered array
    newsIdx,    \* discoverFromNews: the keyword it is at, 0 when not running
    newsDiscovered,     \* discoverFromNews: its discovered array
    redditCache,        \* per subreddit: its cache entries, oldest first
    dResult,    \* what discoverContent returned
    served,     \* history: per source, the answers its queries obtained
    fetchOk,    \* history: per source, its fetches that were answered
    fetchFailed,        \* history: per source, its fetches that failed
    cacheHits,  \* history: subreddits answered from the cache
    hung,       \* the sources whose fetch in flight never completes
    kvFailed,   \* history: an operation on the KV cache failed during the run
    scored,     \* the last call of a quality scorer: its input and its result
    filtered,   \* the last call of filterContent: its arguments and its result
    ranked      \* the last sort and slice of discoverContent: its input and its result

rlVars == <<clock, requests, storage, pc, op, cur, attached, loaded, last,
            opsStarted, winR, winGrants, mUsed, fresh, openW>>

svcVars == <<svcPc, svcOp, svcRes, svcCause>>

dbVars == <<content, queue, dbPc, dbArg, postingRuns, tickItems, dbOps>>

fbVars == <<fbPosts, fbPhotos, fbKeys, pubPc, pubReq, pubRes, pubTries>>

discVars == <<dPc, dMaxItems, dSources, settled, redditIdx, redditDiscovered, newsIdx,
              newsDiscovered, redditCache, dResult, served, fetchOk, fetchFailed, cacheHits,
              hung, kvFailed>>

fnVars == <<scored, filtered, ranked>>

vars == <<rlVars, svcVars, dbVars, fbVars, discVars, fnVars>>

(***************************************************************************)
(* RateLimiter: values                                                     *)
(***************************************************************************)
NoWindow == [count |-> -1, resetTime |-> -1]

NoOp == [kind |-> "none", key |-> "", m |-> 0, w |-> 0, now |-> 0,
         afterReset |-> FALSE, pre |-> NoWindow, sto0 |-> NoWindow, openW0 |-> 0,
         stale |-> FALSE]

NoResult == [status |-> "none", allowed |-> FALSE, remaining |-> 0,
             resetTime |-> 0, retryAfter |-> -1]

Max(a, b) == IF a >= b THEN a ELSE b

\* the seconds rounded down
FloorSeconds(x) == x \div 1000

\* Math.ceil(x / 1000) for an integer x
CeilSeconds(x) == -((-x) \div 1000)

\* { count: 0, resetTime: now + windowMs }
DefaultWindow(now, w) == [count |-> 0, resetTime |-> now + w]

\* await this.state.storage.get(key) || { count: 0, resetTime: now + windowMs }
LoadCurrent(got, now, w) == IF got = NoWindow THEN DefaultWindow(now, w) ELSE got

\* the expiry test with the boundary instant left in the old window
WindowExpiredLate(now, c) == now > c.resetTime

\* an expiry test that restarts the window at every check
WindowExpiredAlways(now, c) == TRUE

\* now >= current.resetTime
WindowExpired(now, c) == now >= c.resetTime

\* the quota test letting one request too many through
AllowedOffByOne(c, m) == c.count <= m

\* current.count < maxRequests
Allowed(c, m) == c.count < m

\* the result with remaining computed from the count before the increment
CheckResultStale(allowed, m, c, now) ==
    [status |-> "ok", allowed |-> allowed,
     remaining |-> Max(0, m - c.count + 1),
     resetTime |-> c.resetTime,
     retryAfter |-> IF allowed THEN -1 ELSE CeilSeconds(c.resetTime - now)]

\* the RateLimitResult built at the end of checkRateLimit
CheckResult(allowed, m, c, now) ==
    [status |-> "ok", allowed |-> allowed,
     remaining |-> Max(0, m - c.count),
     resetTime |-> c.resetTime,
     retryAfter |-> IF allowed THEN -1 ELSE CeilSeconds(c.resetTime - now)]

\* history record of an answered request: its arguments, its answer, and the
\* window the map and storage held for its key when it was answered
Answer(o, r, mem, sto) == [op |-> o, res |-> r, mem |-> mem, sto |-> sto]

ErrorResult == [NoResult EXCEPT !.status = "error"]

ResetResult == [NoResult EXCEPT !.status = "ok"]

InitRL ==
    /\ clock = 0
    /\ requests = [k \in Keys |-> NoWindow]
    /\ storage = [k \in Keys |-> NoWindow]
    /\ pc = [p \in Procs |-> "idle"]
    /\ op = [p \in Procs |-> NoOp]
    /\ cur = [p \in Procs |-> NoWindow]
    /\ attached = [p \in Procs |-> FALSE]
    /\ loaded = [p \in Procs |-> NoWindow]
    /\ last = Answer(NoOp, NoResult, NoWindow, NoWindow)
    /\ opsStarted = 0
    /\ winR = [k \in Keys |-> -1]
    /\ winGrants = [k \in Keys |-> 0]
    /\ mUsed = [k \in Keys |-> {}]
    /\ fresh = [k \in Keys |-> FALSE]
    /\ openW = [k \in Keys |-> 0]


(***************************************************************************)
(* RateLimiter: operations                                                 *)
(***************************************************************************)
histVars == <<winR, winGrants, mUsed, fresh, openW>>

\* the in-flight checks other than p whose `current` is the map's object of k
Sharers(p, k) == {q \in Procs \ {p} : attached[q] /\ op[q].key = k}

\* checkRateLimit from "Reset if window has expired" to the call of
\* state.storage.put (allowed) or to the return (denied).  o holds the
\* arguments, c0 is `current` after the load, isNew tells that the load put a
\* new object in the map, putOk whether storage accepts the write.
Evaluate(p, o, c0, isNew, putOk) ==
    LET k        == o.key
        expired  == WindowExpired(o.now, c0)
        c1       == IF expired THEN DefaultWindow(o.now, o.w) ELSE c0
        replaced == isNew \/ expired
        allowed  == Allowed(c1, o.m)
        c2       == IF allowed THEN [c1 EXCEPT !.count = @ + 1] ELSE c1
    IN  /\ requests' = [requests EXCEPT ![k] = c2]
        /\ cur' = [q \in Procs |->
                     IF q = p THEN (IF allowed THEN c2 ELSE NoWindow)
                     ELSE IF q \in Sharers(p, k) /\ ~replaced THEN c2
                     ELSE cur[q]]
        /\ attached' = [q \in Procs |->
                          IF q = p THEN allowed
                          ELSE IF q \in Sharers(p, k) /\ replaced THEN FALSE
                          ELSE attached[q]]
        /\ loaded' = [loaded EXCEPT ![p] = NoWindow]
        /\ openW' = IF c1.count = 0 THEN [openW EXCEPT ![k] = o.w] ELSE openW
        /\ IF allowed
             THEN /\ storage' = IF putOk THEN [storage EXCEPT ![k] = c2] ELSE storage
                  /\ pc' = [pc EXCEPT ![p] = IF putOk THEN "put" ELSE "putfail"]
                  /\ op' = [op EXCEPT ![p] = o]
                  /\ last' = last
             ELSE /\ putOk
                  /\ storage' = storage
                  /\ pc' = [pc EXCEPT ![p] = "idle"]
                  /\ op' = [op EXCEPT ![p] = NoOp]
                  /\ last' = Answer(o, CheckResult(FALSE, o.m, c2, o.now), c2, storage[k])

\* the arguments of a check and what it found when it was submitted
CheckOp(k, m, w) ==
    [kind |-> "check", key |-> k, m |-> m, w |-> w, now |-> clock,
     afterReset |-> fresh[k],
     pre |-> IF requests[k] # NoWindow THEN requests[k] ELSE storage[k],
     sto0 |-> storage[k], openW0 |-> openW[k], stale |-> FALSE]

\* handleCheck -> checkRateLimit up to its first suspension
StartCheck(p, k, m, w) ==
    /\ pc[p] = "idle"
    /\ opsStarted < MaxOps
    /\ opsStarted' = opsStarted + 1
    /\ mUsed' = [mUsed EXCEPT ![k] = @ \cup {m}]
    /\ fresh' = [fresh EXCEPT ![k] = FALSE]
    /\ IF requests[k] # NoWindow
         THEN \E putOk \in BOOLEAN :
                Evaluate(p, CheckOp(k, m, w), requests[k], FALSE, putOk)
         ELSE /\ pc' = [pc EXCEPT ![p] = "get"]
              /\ op' = [op EXCEPT ![p] = CheckOp(k, m, w)]
              /\ UNCHANGED <<requests, storage, cur, attached, loaded, last, openW>>
    /\ UNCHANGED <<clock, winR, winGrants>>

\* state.storage.get(key) reads the stored value; its reply is in flight
StorageGet(p) ==
    /\ pc[p] = "get"
    /\ pc' = [pc EXCEPT ![p] = "got"]
    /\ loaded' = [loaded EXCEPT ![p] = storage[op[p].key]]
    /\ UNCHANGED <<clock, requests, storage, op, cur, attached, last, opsStarted, histVars>>

\* a request ends by throwing
Throw(p) ==
    /\ pc' = [pc EXCEPT ![p] = "idle"]
    /\ op' = [op EXCEPT ![p] = NoOp]
    /\ cur' = [cur EXCEPT ![p] = NoWindow]
    /\ attached' = [attached EXCEPT ![p] = FALSE]
    /\ loaded' = [loaded EXCEPT ![p] = NoWindow]
    /\ last' = Answer(op[p], ErrorResult, requests[op[p].key], storage[op[p].key])
    /\ UNCHANGED <<clock, requests, storage, opsStarted, histVars>>

\* state.storage.get rejects: checkRateLimit throws
GetFail(p) ==
    /\ pc[p] = "get"
    /\ Throw(p)

\* the await of state.storage.get resumes: requests.set(key, current) and on
GetReturn(p) ==
    /\ pc[p] = "got"
    /\ \E putOk \in BOOLEAN :
         Evaluate(p, op[p], LoadCurrent(loaded[p], op[p].now, op[p].w), TRUE, putOk)
    /\ UNCHANGED <<clock, opsStarted, winR, winGrants, mUsed, fresh>>

\* the history of allowed answers, after an allowed answer carrying resetTime r
GrantsAfter(k, r) == IF winR[k] = r THEN winGrants[k] + 1 ELSE 1

\* the await of state.storage.put resumes: the result is built and returned
PutReturn(p) ==
    /\ pc[p] = "put"
    /\ pc' = [pc EXCEPT ![p] = "idle"]
    /\ op' = [op EXCEPT ![p] = NoOp]
    /\ cur' = [cur EXCEPT ![p] = NoWindow]
    /\ attached' = [attached EXCEPT ![p] = FALSE]
    /\ last' = Answer(op[p], CheckResult(TRUE, op[p].m, cur[p], op[p].now),
                    requests[op[p].key], storage[op[p].key])
    /\ winGrants' = [winGrants EXCEPT ![op[p].key] = GrantsAfter(op[p].key, cur[p].resetTime)]
    /\ winR' = [winR EXCEPT ![op[p].key] = cur[p].resetTime]
    /\ UNCHANGED <<clock, requests, storage, loaded, opsStarted, mUsed, fresh, openW>>

\* state.storage.put rejects: checkRateLimit throws after the increment
PutFail(p) ==
    /\ pc[p] = "putfail"
    /\ Throw(p)

\* a reset that clears the map and leaves storage alone
StorageKept(st, k) == st

\* the stored windows after state.storage.delete(key)
StorageAfterDelete(st, k) == [st EXCEPT ![k] = NoWindow]

\* handleReset up to its suspension: requests.delete and the call of
\* state.storage.delete.  History: the checks of k whose storage.get has
\* already read are marked as holding a value read before the reset.
StartReset(p, k) ==
    /\ pc[p] = "idle"
    /\ opsStarted < MaxOps
    /\ opsStarted' = opsStarted + 1
    /\ op' = [q \in Procs |->
                IF q = p THEN [NoOp EXCEPT !.kind = "reset", !.key = k, !.now = clock]
                ELSE IF pc[q] = "got" /\ op[q].key = k THEN [op[q] EXCEPT !.stale = TRUE]
                ELSE op[q]]
    /\ requests' = [requests EXCEPT ![k] = NoWindow]
    /\ attached' = [q \in Procs |-> IF op[q].key = k THEN FALSE ELSE attached[q]]
    /\ \E delOk \in BOOLEAN :
          /\ storage' = IF delOk THEN StorageAfterDelete(storage, k) ELSE storage
          /\ pc' = [pc EXCEPT ![p] = IF delOk THEN "del" ELSE "delfail"]
    /\ UNCHANGED <<clock, cur, loaded, last, histVars>>

\* the await of state.storage.delete resumes: { success: true }
ResetReturn(p) ==
    /\ pc[p] = "del"
    /\ pc' = [pc EXCEPT ![p] = "idle"]
    /\ op' = [op EXCEPT ![p] = NoOp]
    /\ last' = Answer(op[p], ResetResult, requests[op[p].key], storage[op[p].key])
    /\ fresh' = [fresh EXCEPT ![op[p].key] = TRUE]
    /\ winR' = [winR EXCEPT ![op[p].key] = -1]
    /\ winGrants' = [winGrants EXCEPT ![op[p].key] = 0]
    /\ mUsed' = [mUsed EXCEPT ![op[p].key] = {}]
    /\ UNCHANGED <<clock, requests, storage, cur, attached, loaded, opsStarted, openW>>

\* state.storage.delete rejects: handleReset throws
ResetFail(p) ==
    /\ pc[p] = "delfail"
    /\ Throw(p)

Idle == \A p \in Procs : pc[p] = "idle"

\* the durable object is evicted while idle and constructed again: the
\* in-memory map starts empty, storage is kept
Evict ==
    /\ Idle
    /\ \E k \in Keys : requests[k] # NoWindow
    /\ requests' = [k \in Keys |-> NoWindow]
    /\ UNCHANGED <<clock, storage, pc, op, cur, attached, loaded, last, opsStarted, histVars>>

\* time passes
Tick ==
    /\ clock < MaxTicks * TickMs
    /\ clock' = clock + TickMs
    /\ UNCHANGED <<requests, storage, pc, op, cur, attached, loaded, last, opsStarted, histVars>>

(***************************************************************************)
(* RateLimitService.checkRateLimit: the caller's side of the durable object *)
(***************************************************************************)
\* the durable object request that serves the service's calls
SvcProc == "p1"

NoCall == [key |-> "", m |-> 0, w |-> 0]

\* a result that blocks the caller when the limiter is down
FailClosedResult(m, w, now) ==
    [status |-> "ok", allowed |-> FALSE, remaining |-> 0, resetTime |-> now + w,
     retryAfter |-> CeilSeconds(w)]

\* the result of the catch: { allowed: true, remaining: config.maxRequests,
\* resetTime: Date.now() + config.windowMs }
FailOpenResult(m, w, now) ==
    [status |-> "ok", allowed |-> TRUE, remaining |-> m, resetTime |-> now + w,
     retryAfter |-> -1]

InitSvc ==
    /\ svcPc = "idle"
    /\ svcOp = NoCall
    /\ svcRes = NoResult
    /\ svcCause = "none"

\* checkRateLimit(key, config) reaches the durable object, which starts the
\* check
ServiceCheck(k, m, w) ==
    /\ svcPc = "idle"
    /\ Idle
    /\ StartCheck(SvcProc, k, m, w)
    /\ svcPc' = "waiting"
    /\ svcOp' = [key |-> k, m |-> m, w |-> w]
    /\ UNCHANGED <<svcRes, svcCause>>

\* rateLimiter.fetch rejects without the durable object having run: the
\* catch answers
ServiceUnreachable(k, m, w) ==
    /\ svcPc = "idle"
    /\ Idle
    /\ opsStarted < MaxOps
    /\ opsStarted' = opsStarted + 1
    /\ svcRes' = FailOpenResult(m, w, clock)
    /\ svcCause' = "unreachable"
    /\ svcOp' = [key |-> k, m |-> m, w |-> w]
    /\ UNCHANGED <<svcPc, clock, requests, storage, pc, op, cur, attached, loaded, last,
                   histVars>>

\* the durable object has answered and response.json() yields its result
ServiceReply ==
    /\ svcPc = "waiting"
    /\ pc[SvcProc] = "idle"
    /\ last.res.status = "ok"
    /\ svcPc' = "idle"
    /\ svcRes' = last.res
    /\ svcCause' = "answered"
    /\ UNCHANGED <<svcOp, rlVars>>

\* the durable object threw (storage rejected a get or a put): fetch
\* rejects and the catch answers
ServiceActorThrew ==
    /\ svcPc = "waiting"
    /\ pc[SvcProc] = "idle"
    /\ last.res.status = "error"
    /\ svcPc' = "idle"
    /\ svcRes' = FailOpenResult(svcOp.m, svcOp.w, clock)
    /\ svcCause' = "threw"
    /\ UNCHANGED <<svcOp, rlVars>>

\* the durable object has answered but response.json() throws: the catch
\* answers
ServiceReplyUnreadable ==
    /\ svcPc = "waiting"
    /\ pc[SvcProc] = "idle"
    /\ last.res.status = "ok"
    /\ svcPc' = "idle"
    /\ svcRes' = FailOpenResult(svcOp.m, svcOp.w, clock)
    /\ svcCause' = "unreadable"
    /\ UNCHANGED <<svcOp, rlVars>>

(***************************************************************************)
(* DatabaseService: content and scheduling_queue                           *)
(***************************************************************************)
ContentStatuses ==
    {"pending", "generating", "ready", "approved", "rejected", "scheduled", "posted", "failed"}

QueueStatuses == {"queued", "scheduled", "posting", "posted", "failed", "cancelled"}

\* the statuses createContent is called with (content.status || 'pending')
CreateStatuses == {"pending", "ready"}

\* the statuses updateContentStatus is called with
UpdateStatuses == {"scheduled", "posted", "failed"}

\* the (status, fbPostId given, errorMessage given) shapes
\* updateSchedulingQueueStatus is called with
QueueCalls ==
    {<<st, FALSE, FALSE>> : st \in QueueStatuses}
        \cup {<<"posted", TRUE, FALSE>>}
        \cup {<<st, FALSE, TRUE>> : st \in {"queued", "failed"}}

\* max_retry_attempts of app_config
MaxRetryAttempts == 3

NoContent == [status |-> "none", posted_at |-> -1]

InitDB ==
    /\ content = [c \in ContentIds |-> NoContent]
    /\ queue = <<>>
    /\ dbPc = "idle"
    /\ dbArg = ""
    /\ postingRuns = 0
    /\ tickItems = <<>>
    /\ dbOps = 0

\* createContent: INSERT INTO content (the id is a PRIMARY KEY)
CreateContent(c, st) ==
    /\ dbPc = "idle"
    /\ dbOps < MaxDbOps
    /\ dbOps' = dbOps + 1
    /\ content[c].status = "none"
    /\ content' = [content EXCEPT ![c] = [status |-> st, posted_at |-> -1]]
    /\ UNCHANGED <<queue, dbPc, dbArg, postingRuns, tickItems>>

\* UPDATE content SET status = ?, updated_at = ? [, posted_at = ?] WHERE id = ?
ContentAfterUpdate(ct, c, st, now) ==
    IF ct[c].status = "none" THEN ct
    ELSE [ct EXCEPT ![c] = [status |-> st,
                            posted_at |-> IF st = "posted" THEN now ELSE @.posted_at]]

\* updateContentStatus(id, status)
UpdateContentStatus(c, st) ==
    /\ dbPc = "idle"
    /\ dbOps < MaxDbOps
    /\ dbOps' = dbOps + 1
    /\ content' = ContentAfterUpdate(content, c, st, clock)
    /\ UNCHANGED <<queue, dbPc, dbArg, postingRuns, tickItems>>

\* the row INSERT INTO scheduling_queue (...) VALUES (?, ?, 'queued', ?, ?) adds
NewQueueRow(c, t) ==
    [content_id |-> c, scheduled_time |-> t, status |-> "queued",
     fb_post_id |-> FALSE, retry_count |-> 0, error_message |-> FALSE]

\* scheduleContent up to its first write: the INSERT (content_id is a FOREIGN
\* KEY of content)
ScheduleInsert(c, t) ==
    /\ dbPc = "idle"
    /\ dbOps < MaxDbOps
    /\ dbOps' = dbOps + 1
    /\ content[c].status # "none"
    /\ Len(queue) < MaxQueue
    /\ queue' = Append(queue, NewQueueRow(c, t))
    /\ dbPc' = "schedule"
    /\ dbArg' = c
    /\ UNCHANGED <<content, postingRuns, tickItems>>

\* scheduleContent: updateContentStatus(contentId, 'scheduled') and the return
ScheduleUpdate ==
    /\ dbPc = "schedule"
    /\ content' = ContentAfterUpdate(content, dbArg, "scheduled", clock)
    /\ dbPc' = "idle"
    /\ dbArg' = ""
    /\ UNCHANGED <<queue, postingRuns, tickItems, dbOps>>

\* scheduleContent: the second write rejects and scheduleContent throws
ScheduleUpdateFail ==
    /\ dbPc = "schedule"
    /\ dbPc' = "idle"
    /\ dbArg' = ""
    /\ UNCHANGED <<content, queue, postingRuns, tickItems, dbOps>>

\* UPDATE scheduling_queue SET status = ?, updated_at = ? [, fb_post_id = ?]
\* [, error_message = ?, retry_count = retry_count + 1] WHERE id = ?
QueueAfterUpdate(q, i, st, fb, err) ==
    [q EXCEPT ![i] = [@ EXCEPT !.status = st,
                               !.fb_post_id = IF fb THEN TRUE ELSE @,
                               !.error_message = IF err THEN TRUE ELSE @,
                               !.retry_count = IF err THEN @ + 1 ELSE @]]

\* updateSchedulingQueueStatus(id, status, fbPostId?, errorMessage?)
UpdateSchedulingQueueStatus(i, st, fb, err) ==
    /\ dbPc = "idle"
    /\ dbOps < MaxDbOps
    /\ dbOps' = dbOps + 1
    /\ i \in 1..Len(queue)
    /\ err => queue[i].retry_count < MaxRetryCount
    /\ queue' = QueueAfterUpdate(queue, i, st, fb, err)
    /\ UNCHANGED <<content, dbPc, dbArg, postingRuns, tickItems>>

\* handleScheduledEvent with the posting cron: handleContentPosting logs two
\* lines and touches no table
HandleContentPosting ==
    /\ dbPc = "idle"
    /\ dbOps < MaxDbOps
    /\ dbOps' = dbOps + 1
    /\ postingRuns' = postingRuns + 1
    /\ tickItems' = <<>>
    /\ UNCHANGED <<content, queue, dbPc, dbArg>>

(***************************************************************************)
(* FacebookService: createPost, uploadPhoto, createPhotoPost               *)
(***************************************************************************)
NoRequest == [message |-> "", object_attachment |-> FALSE, published |-> FALSE,
              scheduled |-> FALSE, idempotencyKey |-> ""]

\* JSON.stringify({ ...postData, access_token }): FacebookPostData and the
\* postData of createPhotoPost carry no idempotency key
FeedRequest(c, photo, scheduled) ==
    [message |-> c, object_attachment |-> photo, published |-> ~scheduled,
     scheduled |-> scheduled, idempotencyKey |-> ""]

InitFB ==
    /\ fbPosts = [c \in ContentIds |-> 0]
    /\ fbPhotos = [c \in ContentIds |-> 0]
    /\ fbKeys = {}
    /\ pubPc = [c \in ContentIds |-> "idle"]
    /\ pubReq = [c \in ContentIds |-> NoRequest]
    /\ pubRes = [c \in ContentIds |-> "none"]
    /\ pubTries = 0

\* a publish attempt for content c starts: createPost(postData) sends
\* POST /feed; it is the first attempt or the retry of a failed one
CreatePost(c) ==
    /\ pubPc[c] = "idle"
    /\ pubRes[c] # "ok"
    /\ pubTries < MaxPublish
    /\ pubTries' = pubTries + 1
    /\ pubPc' = [pubPc EXCEPT ![c] = "feed"]
    /\ pubReq' = [pubReq EXCEPT ![c] = FeedRequest(c, FALSE, FALSE)]
    /\ pubRes' = [pubRes EXCEPT ![c] = "none"]
    /\ UNCHANGED <<fbPosts, fbPhotos, fbKeys>>

\* createPhotoPost(imageUrl, message, scheduledTime?) starts: uploadPhoto
\* sends POST /photos
CreatePhotoPost(c, scheduled) ==
    /\ pubPc[c] = "idle"
    /\ pubRes[c] # "ok"
    /\ pubTries < MaxPublish
    /\ pubTries' = pubTries + 1
    /\ pubPc' = [pubPc EXCEPT ![c] = "photos"]
    /\ pubReq' = [pubReq EXCEPT ![c] = FeedRequest(c, TRUE, scheduled)]
    /\ pubRes' = [pubRes EXCEPT ![c] = "none"]
    /\ UNCHANGED <<fbPosts, fbPhotos, fbKeys>>

\* uploadPhoto returns the photo id: createPhotoPost goes on to schedulePost
\* or createPost, which sends POST /feed
UploadPhotoOk(c) ==
    /\ pubPc[c] = "photos"
    /\ fbPhotos' = [fbPhotos EXCEPT ![c] = @ + 1]
    /\ pubPc' = [pubPc EXCEPT ![c] = "feed"]
    /\ UNCHANGED <<fbPosts, fbKeys, pubReq, pubRes, pubTries>>

\* a publish attempt ends by throwing
PublishThrows(c) ==
    /\ pubPc' = [pubPc EXCEPT ![c] = "idle"]
    /\ pubReq' = [pubReq EXCEPT ![c] = NoRequest]
    /\ pubRes' = [pubRes EXCEPT ![c] = "error"]
    /\ UNCHANGED <<fbPosts, fbPhotos, fbKeys, pubTries>>

\* uploadPhoto throws (fetch rejects or the response is not ok)
UploadPhotoFail(c) ==
    /\ pubPc[c] = "photos"
    /\ PublishThrows(c)

\* the posts of the page after Facebook serves a POST /feed: a request
\* carrying an idempotency key it has served before creates nothing
PostsAfterFeed(c, req) ==
    IF req.idempotencyKey # "" /\ req.idempotencyKey \in fbKeys
      THEN fbPosts
      ELSE [fbPosts EXCEPT ![c] = @ + 1]

\* Facebook serves the POST /feed in flight; its response is on the way
FeedServed(c) ==
    /\ pubPc[c] = "feed"
    /\ fbPosts' = PostsAfterFeed(c, pubReq[c])
    /\ fbKeys' = IF pubReq[c].idempotencyKey # ""
                   THEN fbKeys \cup {pubReq[c].idempotencyKey} ELSE fbKeys
    /\ pubPc' = [pubPc EXCEPT ![c] = "reply"]
    /\ UNCHANGED <<fbPhotos, pubReq, pubRes, pubTries>>

\* Facebook refuses the POST /feed (response not ok): createPost throws
FeedRejected(c) ==
    /\ pubPc[c] = "feed"
    /\ PublishThrows(c)

\* the response arrives: createPost returns { id }
FeedReplyOk(c) ==
    /\ pubPc[c] = "reply"
    /\ pubPc' = [pubPc EXCEPT ![c] = "idle"]
    /\ pubReq' = [pubReq EXCEPT ![c] = NoRequest]
    /\ pubRes' = [pubRes EXCEPT ![c] = "ok"]
    /\ UNCHANGED <<fbPosts, fbPhotos, fbKeys, pubTries>>

\* the response is lost (the fetch times out): createPost throws although
\* the post exists
FeedReplyLost(c) ==
    /\ pubPc[c] = "reply"
    /\ PublishThrows(c)

(***************************************************************************)
(* ContentDiscoveryService: discoverContent and its sources                *)
(*                                                                         *)
(* Qualities are counted in units of 1/2400 and ranking scores in units of *)
(* 1/24000, ages in whole hours: with scores that are multiples of 5 every *)
(* value of the code is then an integer.                                   *)
(***************************************************************************)
Min(a, b) == IF a <= b THEN a ELSE b

\* Math.ceil(a / b)
CeilDiv(a, b) == (a + b - 1) \div b

\* Array.prototype.slice(0, n)
Take(s, n) == SubSeq(s, 1, Min(n, Len(s)))

Sources == {"reddit", "twitter", "news"}

\* the subreddits of discoverFromReddit, in its order
Subreddits == <<"cats", "aww", "catpictures", "CatsBeingCats", "IllegallySmolCats">>

\* keywords.slice(0, 2) of discoverFromNews
Keywords == <<"cat", "cats">>

\* posts Reddit serves
PostA == [id |-> "a", over_18 |-> FALSE, score |-> 500, num_comments |-> 10,
          media |-> TRUE, image |-> TRUE, is_video |-> FALSE, hoursOld |-> 2,
          hasUrl |-> TRUE]
PostB == [id |-> "b", over_18 |-> TRUE, score |-> 900, num_comments |-> 50,
          media |-> TRUE, image |-> TRUE, is_video |-> FALSE, hoursOld |-> 1,
          hasUrl |-> TRUE]
PostC == [id |-> "c", over_18 |-> FALSE, score |-> 20, num_comments |-> 0,
          media |-> TRUE, image |-> FALSE, is_video |-> TRUE, hoursOld |-> 30,
          hasUrl |-> TRUE]

\* a post served without url
PostNoUrl == [PostA EXCEPT !.id = "n", !.hasUrl = FALSE]

\* the listings /r/<subreddit>/hot can hold
RedditListings == {<<PostA>>, <<PostB>>, <<PostC, PostA>>}

\* listings that hold a post without url
MalformedRedditListings == {<<PostNoUrl>>}

\* what GET /r/<subreddit>/hot?limit=n answers
RedditResponses(n) == {Take(r, n) : r \in RedditListings}

\* articles the news API serves
ArtX == [url |-> "x", positive |-> TRUE, negative |-> FALSE, urlToImage |-> TRUE,
         reputable |-> TRUE, hoursOld |-> 5, hasTitle |-> TRUE]
ArtY == [url |-> "y", positive |-> TRUE, negative |-> FALSE, urlToImage |-> FALSE,
         reputable |-> FALSE, hoursOld |-> 1, hasTitle |-> TRUE]
ArtZ == [url |-> "z", positive |-> TRUE, negative |-> FALSE, urlToImage |-> TRUE,
         reputable |-> FALSE, hoursOld |-> 50, hasTitle |-> TRUE]

\* an article served without title
ArtNoTitle == [ArtY EXCEPT !.url = "t", !.hasTitle = FALSE]

NewsListings == {<<ArtX>>, <<ArtY, ArtZ>>}

\* answers that hold an article without title
MalformedNewsListings == {<<ArtX, ArtNoTitle>>}

\* what GET /everything?pageSize=n answers
NewsResponses(n) == {Take(r, n) : r \in NewsListings}

\* post.url.includes(...) of the filter of parseRedditContent is reached (the
\* tests before it pass) on a post without url: a TypeError
RedditParseThrows(posts) ==
    \E i \in 1..Len(posts) :
        ~posts[i].over_18 /\ posts[i].score > 10 /\ ~posts[i].hasUrl

\* article.title.toLowerCase() of isRelevantNewsArticle on an article without
\* title: a TypeError
NewsParseThrows(articles) == \E i \in 1..Len(articles) : ~articles[i].hasTitle

\* the filter of parseRedditContent
RedditPostKept(post) == ~post.over_18 /\ post.score > 10 /\ (post.media \/ post.is_video)

\* the recency bonus of calculateRedditQuality: 0.1 * (1 - hoursOld / 24)
\* under 24 hours
RedditRecency(post) == IF post.hoursOld < 24 THEN 240 - 10 * post.hoursOld ELSE 0

\* the sum of the bonuses without the final Math.min(quality, 1.0)
RedditQualityUncapped(post) ==
    Min((post.score * 12) \div 5, 960)
      + (IF post.num_comments > 0 THEN Min(post.num_comments * 24, 720) ELSE 0)
      + (IF post.is_video \/ post.image THEN 480 ELSE 0)
      + RedditRecency(post)

\* calculateRedditQuality
RedditQuality(post) ==
    Min(Min((post.score * 12) \div 5, 960)
          + (IF post.num_comments > 0 THEN Min(post.num_comments * 24, 720) ELSE 0)
          + (IF post.is_video \/ post.image THEN 480 ELSE 0)
          + RedditRecency(post),
        2400)

RedditItem(post, subreddit) ==
    [id |-> post.id, source |-> "reddit", sourceName |-> subreddit,
     quality |-> RedditQuality(post), hoursOld |-> post.hoursOld]

RECURSIVE ParseRedditContent(_, _)
ParseRedditContent(posts, subreddit) ==
    IF posts = <<>> THEN <<>>
    ELSE (IF RedditPostKept(Head(posts))
            THEN <<RedditItem(Head(posts), subreddit)>> ELSE <<>>)
           \o ParseRedditContent(Tail(posts), subreddit)

IsRelevantNewsArticle(article) ==
    article.positive /\ ~article.negative /\ article.urlToImage

NewsQuality(article) ==
    Min(1200 + (IF article.urlToImage THEN 480 ELSE 0)
             + (IF article.reputable THEN 480 ELSE 0)
             + (IF article.hoursOld < 48 THEN 240 - 5 * article.hoursOld ELSE 0),
        2400)

NewsItem(article, keyword) ==
    [id |-> article.url, source |-> "news", sourceName |-> keyword,
     quality |-> NewsQuality(article), hoursOld |-> article.hoursOld]

RECURSIVE ParseNewsArticles(_, _)
ParseNewsArticles(articles, keyword) ==
    IF articles = <<>> THEN <<>>
    ELSE (IF IsRelevantNewsArticle(Head(articles))
            THEN <<NewsItem(Head(articles), keyword)>> ELSE <<>>)
           \o ParseNewsArticles(Tail(articles), keyword)

\* the score of the sort comparator
RankScore(item) == 7 * item.quality + 300 * item.hoursOld

\* the place of x in a sequence sorted by (a, b) => scoreB - scoreA: behind
\* every element that does not score less (the sort is stable)
RECURSIVE InsertByScore(_, _)
InsertByScore(sorted, x) ==
    IF sorted = <<>> THEN <<x>>
    ELSE IF RankScore(Head(sorted)) >= RankScore(x)
           THEN <<Head(sorted)>> \o InsertByScore(Tail(sorted), x)
           ELSE <<x>> \o sorted

RECURSIVE SortByScore(_)
SortByScore(items) ==
    IF items = <<>> THEN <<>>
    ELSE InsertByScore(SortByScore(SubSeq(items, 1, Len(items) - 1)), items[Len(items)])

Unsettled == [status |-> "none", value |-> <<>>]
Pending == [status |-> "pending", value |-> <<>>]
Fulfilled(items) == [status |-> "fulfilled", value |-> items]

\* the loop over the settled results: only the first result is collected
CollectFirstOnly(results) ==
    IF results["reddit"].status = "fulfilled" THEN results["reddit"].value
    ELSE IF results["twitter"].status = "fulfilled" THEN results["twitter"].value
    ELSE IF results["news"].status = "fulfilled" THEN results["news"].value
    ELSE <<>>

\* the loop over the settled results, in the order the promises were pushed
Collect(results) ==
    (IF results["reddit"].status = "fulfilled" THEN results["reddit"].value ELSE <<>>)
      \o (IF results["twitter"].status = "fulfilled" THEN results["twitter"].value ELSE <<>>)
      \o (IF results["news"].status = "fulfilled" THEN results["news"].value ELSE <<>>)

\* Math.ceil(maxItems / sources.length)
SourceLimit == CeilDiv(dMaxItems, Cardinality(dSources))

\* getCachedRedditData(subreddit, 3600): the data of the most recently
\* written entry among those written less than 3600 seconds ago
FreshEntries(subreddit) ==
    {i \in 1..Len(redditCache[subreddit]) : redditCache[subreddit][i].age < 3600}

CacheHit(subreddit) == FreshEntries(subreddit) # {}

\* the entry with the smallest timestamp among the fresh ones
CachedDataOldest(subreddit) ==
    redditCache[subreddit][CHOOSE i \in FreshEntries(subreddit) :
                              \A j \in FreshEntries(subreddit) : i <= j].data

CachedData(subreddit) ==
    redditCache[subreddit][CHOOSE i \in FreshEntries(subreddit) :
                              \A j \in FreshEntries(subreddit) : j <= i].data

NoRun == [reddit |-> 0, news |-> 0]

InitDisc ==
    /\ dPc = "idle"
    /\ dMaxItems = 0
    /\ dSources = {}
    /\ settled = [s \in Sources |-> Unsettled]
    /\ redditIdx = 0
    /\ redditDiscovered = <<>>
    /\ newsIdx = 0
    /\ newsDiscovered = <<>>
    /\ redditCache = [sub \in {Subreddits[i] : i \in 1..Len(Subreddits)} |-> <<>>]
    /\ dResult = <<>>
    /\ served = [s \in Sources |-> <<>>]
    /\ fetchOk = NoRun
    /\ fetchFailed = NoRun
    /\ cacheHits = 0
    /\ hung = {}
    /\ kvFailed = FALSE

\* an earlier run fetched the subreddit and cached its posts, age seconds
\* before the run observed
EarlierCacheWrite(sub, age, data) ==
    /\ dPc = "idle"
    /\ Len(redditCache[sub]) < MaxCacheEntries
    /\ redditCache[sub] # <<>> => age <= redditCache[sub][Len(redditCache[sub])].age
    /\ redditCache' = [redditCache EXCEPT ![sub] = Append(@, [age |-> age, data |-> data])]
    /\ UNCHANGED <<dPc, dMaxItems, dSources, settled, redditIdx, redditDiscovered, newsIdx,
                   newsDiscovered, dResult, served, fetchOk, fetchFailed, cacheHits, hung, kvFailed>>

\* discoverContent(maxItems, sources) starts the requested sources;
\* discoverFromTwitter has no await and is fulfilled with [] at once
DiscoverContent(maxItems, sources) ==
    /\ dPc = "idle"
    /\ dPc' = "running"
    /\ dMaxItems' = maxItems
    /\ dSources' = sources
    /\ settled' = [s \in Sources |->
                     IF s \notin sources THEN Unsettled
                     ELSE IF s = "twitter" THEN Fulfilled(<<>>) ELSE Pending]
    /\ redditIdx' = IF "reddit" \in sources THEN 1 ELSE 0
    /\ newsIdx' = IF "news" \in sources THEN 1 ELSE 0
    /\ UNCHANGED <<redditDiscovered, newsDiscovered, redditCache, dResult, served,
                   fetchOk, fetchFailed, cacheHits, hung, kvFailed>>

\* discoverFromReddit goes on to the next subreddit, or returns
\* discovered.slice(0, limit) after the last one
RedditNext(discovered) ==
    IF redditIdx < Len(Subreddits)
      THEN /\ redditIdx' = redditIdx + 1
           /\ redditDiscovered' = discovered
           /\ settled' = settled
      ELSE /\ redditIdx' = 0
           /\ redditDiscovered' = <<>>
           /\ settled' = [settled EXCEPT !["reddit"] = Fulfilled(Take(discovered, SourceLimit))]

\* the subreddit has a fresh cache entry: its posts are parsed, nothing is
\* fetched
RedditCached ==
    /\ dPc = "running" /\ redditIdx > 0 /\ "reddit" \notin hung
    /\ CacheHit(Subreddits[redditIdx])
    /\ LET sub == Subreddits[redditIdx]
           data == CachedData(sub)
       IN  /\ RedditNext(redditDiscovered \o ParseRedditContent(data, sub))
           /\ served' = [served EXCEPT !["reddit"] = Append(@, <<sub, data>>)]
    /\ cacheHits' = cacheHits + 1
    /\ UNCHANGED <<dPc, dMaxItems, dSources, newsIdx, newsDiscovered, redditCache,
                   dResult, fetchOk, fetchFailed, hung, kvFailed>>

\* fetchRedditSubreddit returns the posts: they are cached and parsed
RedditFetched ==
    /\ dPc = "running" /\ redditIdx > 0 /\ "reddit" \notin hung
    /\ ~CacheHit(Subreddits[redditIdx])
    /\ \E data \in RedditResponses(CeilDiv(SourceLimit, Len(Subreddits))) :
          LET sub == Subreddits[redditIdx]
          IN  /\ redditCache' = [redditCache EXCEPT ![sub] =
                                    Append(@, [age |-> 0, data |-> data])]
              /\ RedditNext(redditDiscovered \o ParseRedditContent(data, sub))
              /\ served' = [served EXCEPT !["reddit"] = Append(@, <<sub, data>>)]
    /\ fetchOk' = [fetchOk EXCEPT !.reddit = @ + 1]
    /\ UNCHANGED <<dPc, dMaxItems, dSources, newsIdx, newsDiscovered, dResult,
                   fetchFailed, cacheHits, hung, kvFailed>>

\* fetchRedditSubreddit catches a failed token or listing request and
\* returns null: the subreddit is skipped
RedditFetchFailed ==
    /\ dPc = "running" /\ redditIdx > 0 /\ "reddit" \notin hung
    /\ ~CacheHit(Subreddits[redditIdx])
    /\ RedditNext(redditDiscovered)
    /\ fetchFailed' = [fetchFailed EXCEPT !.reddit = @ + 1]
    /\ UNCHANGED <<dPc, dMaxItems, dSources, newsIdx, newsDiscovered, redditCache,
                   dResult, served, fetchOk, cacheHits, hung, kvFailed>>

\* the token or listing request of fetchRedditSubreddit is never answered:
\* the await of fetch has no timeout and discoverFromReddit stays suspended
RedditFetchHangs ==
    /\ dPc = "running" /\ redditIdx > 0 /\ "reddit" \notin hung
    /\ ~CacheHit(Subreddits[redditIdx])
    /\ hung' = hung \cup {"reddit"}
    /\ UNCHANGED <<dPc, dMaxItems, dSources, settled, redditIdx, redditDiscovered, newsIdx,
                   newsDiscovered, redditCache, dResult, served, fetchOk, fetchFailed,
                   cacheHits, kvFailed>>

\* discoverFromNews goes on to the next keyword, or returns
\* discovered.slice(0, limit) after the last one
NewsNext(discovered) ==
    IF newsIdx < Len(Keywords)
      THEN /\ newsIdx' = newsIdx + 1
           /\ newsDiscovered' = discovered
           /\ settled' = settled
      ELSE /\ newsIdx' = 0
           /\ newsDiscovered' = <<>>
           /\ settled' = [settled EXCEPT !["news"] = Fulfilled(Take(discovered, SourceLimit))]

\* the news API answers the keyword's query: its relevant articles are kept
NewsFetched ==
    /\ dPc = "running" /\ newsIdx > 0 /\ "news" \notin hung
    /\ \E data \in NewsResponses(CeilDiv(SourceLimit, 2)) :
          LET keyword == Keywords[newsIdx]
          IN  /\ NewsNext(newsDiscovered \o ParseNewsArticles(data, keyword))
              /\ served' = [served EXCEPT !["news"] = Append(@, <<keyword, data>>)]
    /\ fetchOk' = [fetchOk EXCEPT !.news = @ + 1]
    /\ UNCHANGED <<dPc, dMaxItems, dSources, redditIdx, redditDiscovered, redditCache,
                   dResult, fetchFailed, cacheHits, hung, kvFailed>>

\* the response is not ok: continue with the next keyword
NewsNotOk ==
    /\ dPc = "running" /\ newsIdx > 0 /\ "news" \notin hung
    /\ NewsNext(newsDiscovered)
    /\ fetchFailed' = [fetchFailed EXCEPT !.news = @ + 1]
    /\ UNCHANGED <<dPc, dMaxItems, dSources, redditIdx, redditDiscovered, redditCache,
                   dResult, served, fetchOk, cacheHits, hung, kvFailed>>

\* fetch or response.json() throws: the catch returns [], whatever had been
\* discovered
NewsThrows ==
    /\ dPc = "running" /\ newsIdx > 0 /\ "news" \notin hung
    /\ newsIdx' = 0
    /\ newsDiscovered' = <<>>
    /\ settled' = [settled EXCEPT !["news"] = Fulfilled(<<>>)]
    /\ fetchFailed' = [fetchFailed EXCEPT !.news = @ + 1]
    /\ UNCHANGED <<dPc, dMaxItems, dSources, redditIdx, redditDiscovered, redditCache,
                   dResult, served, fetchOk, cacheHits, hung, kvFailed>>

\* the request of discoverFromNews is never answered: the await of fetch has
\* no timeout and discoverFromNews stays suspended
NewsFetchHangs ==
    /\ dPc = "running" /\ newsIdx > 0 /\ "news" \notin hung
    /\ hung' = hung \cup {"news"}
    /\ UNCHANGED <<dPc, dMaxItems, dSources, settled, redditIdx, redditDiscovered, newsIdx,
                   newsDiscovered, redditCache, dResult, served, fetchOk, fetchFailed,
                   cacheHits, kvFailed>>

\* fetchRedditSubreddit returns a listing with a post without url: the
\* listing is cached, parseRedditContent throws, and the catch of
\* discoverFromReddit returns [], whatever had been discovered
RedditFetchedMalformed ==
    /\ dPc = "running" /\ redditIdx > 0 /\ "reddit" \notin hung
    /\ ~CacheHit(Subreddits[redditIdx])
    /\ \E data \in {Take(r, CeilDiv(SourceLimit, Len(Subreddits))) : r \in MalformedRedditListings} :
          LET sub == Subreddits[redditIdx]
          IN  /\ RedditParseThrows(data)
              /\ redditCache' = [redditCache EXCEPT ![sub] =
                                    Append(@, [age |-> 0, data |-> data])]
              /\ served' = [served EXCEPT !["reddit"] = Append(@, <<sub, data>>)]
    /\ redditIdx' = 0
    /\ redditDiscovered' = <<>>
    /\ settled' = [settled EXCEPT !["reddit"] = Fulfilled(<<>>)]
    /\ fetchOk' = [fetchOk EXCEPT !.reddit = @ + 1]
    /\ UNCHANGED <<dPc, dMaxItems, dSources, newsIdx, newsDiscovered, dResult,
                   fetchFailed, cacheHits, hung, kvFailed>>

\* the KV store is down: getCachedRedditData gets [] from listKeys (its catch)
\* and returns null, the subreddit is fetched, and cacheRedditData gets false
\* from set (its catch), which discoverFromReddit does not look at
RedditFetchedCacheDown ==
    /\ dPc = "running" /\ redditIdx > 0 /\ "reddit" \notin hung
    /\ \E data \in RedditResponses(CeilDiv(SourceLimit, Len(Subreddits))) :
          LET sub == Subreddits[redditIdx]
          IN  /\ RedditNext(redditDiscovered \o ParseRedditContent(data, sub))
              /\ served' = [served EXCEPT !["reddit"] = Append(@, <<sub, data>>)]
    /\ fetchOk' = [fetchOk EXCEPT !.reddit = @ + 1]
    /\ kvFailed' = TRUE
    /\ UNCHANGED <<dPc, dMaxItems, dSources, newsIdx, newsDiscovered, redditCache, dResult,
                   fetchFailed, cacheHits, hung>>

\* the news API answers with an article without title: isRelevantNewsArticle
\* throws and the catch of discoverFromNews returns [], whatever had been
\* discovered
NewsFetchedMalformed ==
    /\ dPc = "running" /\ newsIdx > 0 /\ "news" \notin hung
    /\ \E data \in {Take(r, CeilDiv(SourceLimit, 2)) : r \in MalformedNewsListings} :
          /\ NewsParseThrows(data)
          /\ served' = [served EXCEPT !["news"] = Append(@, <<Keywords[newsIdx], data>>)]
    /\ newsIdx' = 0
    /\ newsDiscovered' = <<>>
    /\ settled' = [settled EXCEPT !["news"] = Fulfilled(<<>>)]
    /\ fetchOk' = [fetchOk EXCEPT !.news = @ + 1]
    /\ UNCHANGED <<dPc, dMaxItems, dSources, redditIdx, redditDiscovered, redditCache,
                   dResult, fetchFailed, cacheHits, hung, kvFailed>>

\* Promise.allSettled resolves: the fulfilled values are collected, sorted
\* and cut to maxItems
DiscoverReturn ==
    /\ dPc = "running"
    /\ \A s \in dSources : settled[s].status = "fulfilled"
    /\ dResult' = Take(SortByScore(Collect(settled)), dMaxItems)
    /\ dPc' = "done"
    /\ UNCHANGED <<dMaxItems, dSources, settled, redditIdx, redditDiscovered, newsIdx,
                   newsDiscovered, redditCache, served, fetchOk, fetchFailed, cacheHits, hung, kvFailed>>

(***************************************************************************)
(* ContentDiscoveryService: the scorers, filterContent and the sort, each  *)
(* applied once to arguments drawn from a bounded set                      *)
(***************************************************************************)
\* hoursOld = (Date.now() - created) / 3600000 of the scored item; negative
\* when the creation time is ahead of the worker's clock
ScorerHours == {-240, -1, 0, 23, 24, 47, 48, 100}

\* the posts handed to calculateRedditQuality
ScorerPosts ==
    [id : {"a"}, over_18 : {FALSE}, score : {0, 15, 500, 5000},
     num_comments : {0, 10, 500}, media : {TRUE}, image : BOOLEAN,
     is_video : BOOLEAN, hoursOld : ScorerHours]

\* the articles handed to calculateNewsQuality
ScorerArticles ==
    [url : {"x"}, positive : {TRUE}, negative : {FALSE}, urlToImage : BOOLEAN,
     reputable : BOOLEAN, hoursOld : ScorerHours]

NoScore == [kind |-> "none", hoursOld |-> 0, recency |-> 0, quality |-> 0]

\* the items handed to filterContent: quality in units of 1/2400, age in hours
FilterItems ==
    [quality : {600, 720}, hoursOld : {24, 25}, contentType : {"text", "image"},
     imageUrl : BOOLEAN, videoUrl : BOOLEAN]

\* the minQuality arguments: the default 0.3, and 0.6
FilterMinQualities == {720, 1440}

\* the maxAge arguments, in hours: one day, and the default of 7 days
FilterMaxAges == {24, 168}

NoFilter == [content |-> <<>>, minQuality |-> 0, maxAge |-> 0, out |-> <<>>,
             twice |-> <<>>, called |-> FALSE]

\* a filter that also drops the items whose quality equals minQuality
FilterKeptAbove(item, minQuality, maxAge) ==
    /\ ~(item.quality <= minQuality)
    /\ ~(item.hoursOld > maxAge)
    /\ ~(item.contentType = "text" /\ ~item.imageUrl)

\* the callback of content.filter in filterContent
FilterKept(item, minQuality, maxAge) ==
    /\ ~(item.quality < minQuality)
    /\ ~(item.hoursOld > maxAge)
    /\ ~(item.contentType = "text" /\ ~item.imageUrl)

\* filterContent(content, minQuality, maxAge); contentArr is its content argument
FilterContent(contentArr, minQuality, maxAge) ==
    SelectSeq(contentArr, LAMBDA item : FilterKept(item, minQuality, maxAge))

\* an article with the score of ArtX and another url
ArtW == [ArtX EXCEPT !.url = "w"]

\* the items of the source results that are concatenated and sorted
RankItems ==
    {NewsItem(ArtX, "cat"), NewsItem(ArtW, "cats"), NewsItem(ArtZ, "cat"),
     RedditItem(PostA, "cats"), RedditItem(PostC, "aww")}

NoRank == [items |-> <<>>, maxItems |-> 0, out |-> <<>>]

\* the sequences over S of length at most n
SeqsUpTo(S, n) == UNION {[1..len -> S] : len \in 0..n}

InitFn ==
    /\ scored = NoScore
    /\ filtered = NoFilter
    /\ ranked = NoRank

\* calculateRedditQuality(post)
CalculateRedditQuality(post) ==
    /\ scored = NoScore
    /\ scored' = [kind |-> "reddit", hoursOld |-> post.hoursOld,
                  recency |-> RedditRecency(post), quality |-> RedditQuality(post)]
    /\ UNCHANGED <<filtered, ranked>>

\* calculateNewsQuality(article)
CalculateNewsQuality(article) ==
    /\ scored = NoScore
    /\ scored' = [kind |-> "news", hoursOld |-> article.hoursOld,
                  recency |-> NewsQuality(article) - NewsQuality([article EXCEPT !.hoursOld = 48]),
                  quality |-> NewsQuality(article)]
    /\ UNCHANGED <<filtered, ranked>>

\* filterContent(content, minQuality, maxAge), and filterContent again on its
\* result
FilterCall(contentArr, minQuality, maxAge) ==
    /\ filtered = NoFilter
    /\ filtered' = [content |-> contentArr, minQuality |-> minQuality, maxAge |-> maxAge,
                    out |-> FilterContent(contentArr, minQuality, maxAge),
                    twice |-> FilterContent(FilterContent(contentArr, minQuality, maxAge),
                                            minQuality, maxAge),
                    called |-> TRUE]
    /\ UNCHANGED <<scored, ranked>>

\* allContent.sort(...) and slice(0, maxItems) of discoverContent
SortAndSlice(items, maxItems) ==
    /\ ranked = NoRank
    /\ ranked' = [items |-> items, maxItems |-> maxItems,
                  out |-> Take(SortByScore(items), maxItems)]
    /\ UNCHANGED <<scored, filtered>>

Init == InitRL /\ InitSvc /\ InitDB /\ InitFB /\ InitDisc /\ InitFn

\* the requests of the durable object interleave at their awaits
NextRL ==
    \/ \E p \in Procs, k \in Keys, m \in 1..MaxM, w \in Windows :
          StartCheck(p, k, m, w) /\ UNCHANGED <<svcVars, dbVars, fbVars, discVars, fnVars>>
    \/ \E p \in Procs : StorageGet(p) /\ UNCHANGED <<svcVars, dbVars, fbVars, discVars, fnVars>>
    \/ \E p \in Procs : GetFail(p) /\ UNCHANGED <<svcVars, dbVars, fbVars, discVars, fnVars>>
    \/ \E p \in Procs : GetReturn(p) /\ UNCHANGED <<svcVars, dbVars, fbVars, discVars, fnVars>>
    \/ \E p \in Procs : PutReturn(p) /\ UNCHANGED <<svcVars, dbVars, fbVars, discVars, fnVars>>
    \/ \E p \in Procs : PutFail(p) /\ UNCHANGED <<svcVars, dbVars, fbVars, discVars, fnVars>>
    \/ \E p \in Procs, k \in Keys : StartReset(p, k) /\ UNCHANGED <<svcVars, dbVars, fbVars, discVars, fnVars>>
    \/ \E p \in Procs : ResetReturn(p) /\ UNCHANGED <<svcVars, dbVars, fbVars, discVars, fnVars>>
    \/ \E p \in Procs : ResetFail(p) /\ UNCHANGED <<svcVars, dbVars, fbVars, discVars, fnVars>>
    \/ Evict /\ UNCHANGED <<svcVars, dbVars, fbVars, discVars, fnVars>>
    \/ Tick /\ UNCHANGED <<svcVars, dbVars, fbVars, discVars, fnVars>>

\* the requests are delivered one after another: none starts while another
\* is in progress
NextSeq ==
    \/ \E p \in Procs, k \in Keys, m \in 1..MaxM, w \in Windows :
          Idle /\ StartCheck(p, k, m, w) /\ UNCHANGED <<svcVars, dbVars, fbVars, discVars, fnVars>>
    \/ \E p \in Procs : StorageGet(p) /\ UNCHANGED <<svcVars, dbVars, fbVars, discVars, fnVars>>
    \/ \E p \in Procs : GetFail(p) /\ UNCHANGED <<svcVars, dbVars, fbVars, discVars, fnVars>>
    \/ \E p \in Procs : GetReturn(p) /\ UNCHANGED <<svcVars, dbVars, fbVars, discVars, fnVars>>
    \/ \E p \in Procs : PutReturn(p) /\ UNCHANGED <<svcVars, dbVars, fbVars, discVars, fnVars>>
    \/ \E p \in Procs : PutFail(p) /\ UNCHANGED <<svcVars, dbVars, fbVars, discVars, fnVars>>
    \/ \E p \in Procs, k \in Keys : Idle /\ StartReset(p, k) /\ UNCHANGED <<svcVars, dbVars, fbVars, discVars, fnVars>>
    \/ \E p \in Procs : ResetReturn(p) /\ UNCHANGED <<svcVars, dbVars, fbVars, discVars, fnVars>>
    \/ \E p \in Procs : ResetFail(p) /\ UNCHANGED <<svcVars, dbVars, fbVars, discVars, fnVars>>
    \/ Evict /\ UNCHANGED <<svcVars, dbVars, fbVars, discVars, fnVars>>
    \/ Tick /\ UNCHANGED <<svcVars, dbVars, fbVars, discVars, fnVars>>

\* the calls of RateLimitService.checkRateLimit, one at a time
NextSvc ==
    \/ \E k \in Keys, m \in 1..MaxM, w \in Windows :
          ServiceCheck(k, m, w) /\ UNCHANGED <<dbVars, fbVars, discVars, fnVars>>
    \/ \E k \in Keys, m \in 1..MaxM, w \in Windows :
          ServiceUnreachable(k, m, w) /\ UNCHANGED <<dbVars, fbVars, discVars, fnVars>>
    \/ StorageGet(SvcProc) /\ UNCHANGED <<svcVars, dbVars, fbVars, discVars, fnVars>>
    \/ GetFail(SvcProc) /\ UNCHANGED <<svcVars, dbVars, fbVars, discVars, fnVars>>
    \/ GetReturn(SvcProc) /\ UNCHANGED <<svcVars, dbVars, fbVars, discVars, fnVars>>
    \/ PutReturn(SvcProc) /\ UNCHANGED <<svcVars, dbVars, fbVars, discVars, fnVars>>
    \/ PutFail(SvcProc) /\ UNCHANGED <<svcVars, dbVars, fbVars, discVars, fnVars>>
    \/ ServiceReply /\ UNCHANGED <<dbVars, fbVars, discVars, fnVars>>
    \/ ServiceActorThrew /\ UNCHANGED <<dbVars, fbVars, discVars, fnVars>>
    \/ ServiceReplyUnreadable /\ UNCHANGED <<dbVars, fbVars, discVars, fnVars>>
    \/ Evict /\ svcPc = "idle" /\ UNCHANGED <<svcVars, dbVars, fbVars, discVars, fnVars>>
    \/ Tick /\ UNCHANGED <<svcVars, dbVars, fbVars, discVars, fnVars>>

\* the database operations, one at a time, and the passing of time
NextDB ==
    \/ \E c \in ContentIds, st \in CreateStatuses :
          CreateContent(c, st) /\ UNCHANGED <<rlVars, svcVars, fbVars, discVars, fnVars>>
    \/ \E c \in ContentIds, st \in UpdateStatuses :
          UpdateContentStatus(c, st) /\ UNCHANGED <<rlVars, svcVars, fbVars, discVars, fnVars>>
    \/ \E c \in ContentIds, t \in ScheduleTimes :
          ScheduleInsert(c, t) /\ UNCHANGED <<rlVars, svcVars, fbVars, discVars, fnVars>>
    \/ ScheduleUpdate /\ UNCHANGED <<rlVars, svcVars, fbVars, discVars, fnVars>>
    \/ ScheduleUpdateFail /\ UNCHANGED <<rlVars, svcVars, fbVars, discVars, fnVars>>
    \/ \E i \in 1..MaxQueue, call \in QueueCalls :
          UpdateSchedulingQueueStatus(i, call[1], call[2], call[3]) /\ UNCHANGED <<rlVars, svcVars, fbVars, discVars, fnVars>>
    \/ HandleContentPosting /\ UNCHANGED <<rlVars, svcVars, fbVars, discVars, fnVars>>
    \/ Tick /\ UNCHANGED <<svcVars, dbVars, fbVars, discVars, fnVars>>

\* the publish attempts of the contents
NextFB ==
    \/ \E c \in ContentIds : CreatePost(c) /\ UNCHANGED <<rlVars, svcVars, dbVars, discVars, fnVars>>
    \/ \E c \in ContentIds, sch \in BOOLEAN :
          CreatePhotoPost(c, sch) /\ UNCHANGED <<rlVars, svcVars, dbVars, discVars, fnVars>>
    \/ \E c \in ContentIds : UploadPhotoOk(c) /\ UNCHANGED <<rlVars, svcVars, dbVars, discVars, fnVars>>
    \/ \E c \in ContentIds : UploadPhotoFail(c) /\ UNCHANGED <<rlVars, svcVars, dbVars, discVars, fnVars>>
    \/ \E c \in ContentIds : FeedServed(c) /\ UNCHANGED <<rlVars, svcVars, dbVars, discVars, fnVars>>
    \/ \E c \in ContentIds : FeedRejected(c) /\ UNCHANGED <<rlVars, svcVars, dbVars, discVars, fnVars>>
    \/ \E c \in ContentIds : FeedReplyOk(c) /\ UNCHANGED <<rlVars, svcVars, dbVars, discVars, fnVars>>
    \/ \E c \in ContentIds : FeedReplyLost(c) /\ UNCHANGED <<rlVars, svcVars, dbVars, discVars, fnVars>>

\* one discoverContent run
NextDisc ==
    \/ \E age \in CacheAges, data \in RedditListings :
          redditCache[Subreddits[2]] = <<>>
            /\ EarlierCacheWrite(Subreddits[2], age, data) /\ UNCHANGED <<rlVars, svcVars, dbVars, fbVars, fnVars>>
    \/ \E maxItems \in 1..MaxItems, sources \in SUBSET Sources \ {{}} :
          DiscoverContent(maxItems, sources) /\ UNCHANGED <<rlVars, svcVars, dbVars, fbVars, fnVars>>
    \/ RedditCached /\ UNCHANGED <<rlVars, svcVars, dbVars, fbVars, fnVars>>
    \/ RedditFetched /\ UNCHANGED <<rlVars, svcVars, dbVars, fbVars, fnVars>>
    \/ RedditFetchFailed /\ UNCHANGED <<rlVars, svcVars, dbVars, fbVars, fnVars>>
    \/ NewsFetched /\ UNCHANGED <<rlVars, svcVars, dbVars, fbVars, fnVars>>
    \/ NewsNotOk /\ UNCHANGED <<rlVars, svcVars, dbVars, fbVars, fnVars>>
    \/ NewsThrows /\ UNCHANGED <<rlVars, svcVars, dbVars, fbVars, fnVars>>
    \/ DiscoverReturn /\ UNCHANGED <<rlVars, svcVars, dbVars, fbVars, fnVars>>

\* the steps of a discoverContent run in progress
RunStep ==
    \/ RedditCached /\ UNCHANGED <<rlVars, svcVars, dbVars, fbVars, fnVars>>
    \/ RedditFetched /\ UNCHANGED <<rlVars, svcVars, dbVars, fbVars, fnVars>>
    \/ RedditFetchFailed /\ UNCHANGED <<rlVars, svcVars, dbVars, fbVars, fnVars>>
    \/ NewsFetched /\ UNCHANGED <<rlVars, svcVars, dbVars, fbVars, fnVars>>
    \/ NewsNotOk /\ UNCHANGED <<rlVars, svcVars, dbVars, fbVars, fnVars>>
    \/ NewsThrows /\ UNCHANGED <<rlVars, svcVars, dbVars, fbVars, fnVars>>
    \/ DiscoverReturn /\ UNCHANGED <<rlVars, svcVars, dbVars, fbVars, fnVars>>

\* one discoverContent run whose fetches may stay unanswered
NextDiscHang ==
    \/ \E sources \in SUBSET Sources \ {{}} :
          DiscoverContent(MaxItems, sources) /\ UNCHANGED <<rlVars, svcVars, dbVars, fbVars, fnVars>>
    \/ RedditFetched /\ UNCHANGED <<rlVars, svcVars, dbVars, fbVars, fnVars>>
    \/ RedditFetchFailed /\ UNCHANGED <<rlVars, svcVars, dbVars, fbVars, fnVars>>
    \/ RedditFetchHangs /\ UNCHANGED <<rlVars, svcVars, dbVars, fbVars, fnVars>>
    \/ NewsFetched /\ UNCHANGED <<rlVars, svcVars, dbVars, fbVars, fnVars>>
    \/ NewsNotOk /\ UNCHANGED <<rlVars, svcVars, dbVars, fbVars, fnVars>>
    \/ NewsThrows /\ UNCHANGED <<rlVars, svcVars, dbVars, fbVars, fnVars>>
    \/ NewsFetchHangs /\ UNCHANGED <<rlVars, svcVars, dbVars, fbVars, fnVars>>
    \/ DiscoverReturn /\ UNCHANGED <<rlVars, svcVars, dbVars, fbVars, fnVars>>

\* one discoverContent run in which answers may hold malformed items and
\* the KV store may be down
NextDiscFaults ==
    \/ \E sources \in {{"reddit"}, {"news"}} :
          DiscoverContent(MaxItems, sources) /\ UNCHANGED <<rlVars, svcVars, dbVars, fbVars, fnVars>>
    \/ RedditFetched /\ UNCHANGED <<rlVars, svcVars, dbVars, fbVars, fnVars>>
    \/ RedditFetchFailed /\ UNCHANGED <<rlVars, svcVars, dbVars, fbVars, fnVars>>
    \/ RedditFetchedMalformed /\ UNCHANGED <<rlVars, svcVars, dbVars, fbVars, fnVars>>
    \/ RedditFetchedCacheDown /\ UNCHANGED <<rlVars, svcVars, dbVars, fbVars, fnVars>>
    \/ NewsFetched /\ UNCHANGED <<rlVars, svcVars, dbVars, fbVars, fnVars>>
    \/ NewsNotOk /\ UNCHANGED <<rlVars, svcVars, dbVars, fbVars, fnVars>>
    \/ NewsThrows /\ UNCHANGED <<rlVars, svcVars, dbVars, fbVars, fnVars>>
    \/ NewsFetchedMalformed /\ UNCHANGED <<rlVars, svcVars, dbVars, fbVars, fnVars>>
    \/ DiscoverReturn /\ UNCHANGED <<rlVars, svcVars, dbVars, fbVars, fnVars>>

\* one discoverFromReddit run on a cache that earlier runs have filled
NextCache ==
    \/ \E age \in CacheAges, data \in RedditListings :
          EarlierCacheWrite(Subreddits[2], age, data) /\ UNCHANGED <<rlVars, svcVars, dbVars, fbVars, fnVars>>
    \/ DiscoverContent(MaxItems, {"reddit"}) /\ UNCHANGED <<rlVars, svcVars, dbVars, fbVars, fnVars>>
    \/ RedditCached /\ UNCHANGED <<rlVars, svcVars, dbVars, fbVars, fnVars>>
    \/ RedditFetched /\ UNCHANGED <<rlVars, svcVars, dbVars, fbVars, fnVars>>
    \/ RedditFetchFailed /\ UNCHANGED <<rlVars, svcVars, dbVars, fbVars, fnVars>>
    \/ DiscoverReturn /\ UNCHANGED <<rlVars, svcVars, dbVars, fbVars, fnVars>>

\* the scorers applied to single items
NextScore ==
    \/ \E post \in ScorerPosts :
          CalculateRedditQuality(post) /\ UNCHANGED <<rlVars, svcVars, dbVars, fbVars, discVars>>
    \/ \E article \in ScorerArticles :
          CalculateNewsQuality(article) /\ UNCHANGED <<rlVars, svcVars, dbVars, fbVars, discVars>>

\* filterContent applied to content arrays (the arguments are enumerated
\* only while no call was made)
NextFilter ==
    \/ /\ filtered = NoFilter
       /\ \E contentArr \in SeqsUpTo(FilterItems, MaxFilterLen),
             minQuality \in FilterMinQualities, maxAge \in FilterMaxAges :
             FilterCall(contentArr, minQuality, maxAge)
                /\ UNCHANGED <<rlVars, svcVars, dbVars, fbVars, discVars>>

\* the sort and slice applied to concatenations of source results
NextRank ==
    \/ \E items \in SeqsUpTo(RankItems, MaxRankLen), maxItems \in 1..MaxItems :
          SortAndSlice(items, maxItems) /\ UNCHANGED <<rlVars, svcVars, dbVars, fbVars, discVars>>

Spec == Init /\ [][NextRL]_vars

SpecSeq == Init /\ [][NextSeq]_vars

SpecSvc == Init /\ [][NextSvc]_vars

SpecDB == Init /\ [][NextDB]_vars

SpecFB == Init /\ [][NextFB]_vars

SpecDisc == Init /\ [][NextDisc]_vars

SpecDiscHang == Init /\ [][NextDiscHang]_vars

SpecDiscFaults == Init /\ [][NextDiscFaults]_vars

SpecCache == Init /\ [][NextCache]_vars

SpecScore == Init /\ [][NextScore]_vars

SpecFilter == Init /\ [][NextFilter]_vars

SpecRank == Init /\ [][NextRank]_vars

(***************************************************************************)
(* RateLimiter: properties                                                 *)
(***************************************************************************)
AnsweredCheck == last.op.kind = "check" /\ last.res.status = "ok"

\* C1: with the requests processed one after another and one maxRequests m
\* in use on a key, at most m answers of one window are allowed=true and the
\* count held for the key, in the map and in storage, never exceeds m.
C1_QuotaPerWindow ==
    \A k \in Keys : \A m \in 1..MaxM :
        mUsed[k] = {m} =>
            /\ winGrants[k] <= m
            /\ requests[k].count <= m
            /\ storage[k].count <= m

\* a window whose whole quota MaxM was granted and whose next check was denied
C1_Witness ==
    \E k \in Keys :
        /\ mUsed[k] = {MaxM}
        /\ winGrants[k] = MaxM
        /\ AnsweredCheck /\ last.op.key = k /\ ~last.res.allowed

\* C2: with checks of one key in flight together, every check decides on a
\* count that includes the allowed answers already given in its window, and
\* the allowed answers of one window never exceed maxRequests.
C2_NoStaleCount ==
    [][ /\ \A p \in Procs :
              (pc[p] # "put" /\ pc'[p] = "put" /\ cur'[p].resetTime = winR[op'[p].key])
                  => cur'[p].count > winGrants[op'[p].key]
        /\ \A k \in Keys : \A m \in 1..MaxM :
              mUsed'[k] = {m} => winGrants'[k] <= m ]_vars

\* C9: the first check made at now >= resetTime of the stored window is
\* answered allowed=true and leaves count = 1 and resetTime = now + windowMs,
\* in the map and in storage.
C9_ExpiredWindowRestarts ==
    (AnsweredCheck /\ last.op.pre # NoWindow /\ last.op.now >= last.op.pre.resetTime)
        => /\ last.res.allowed
           /\ last.res.remaining = last.op.m - 1
           /\ last.res.resetTime = last.op.now + last.op.w
           /\ last.mem = [count |-> 1, resetTime |-> last.op.now + last.op.w]
           /\ last.sto = last.mem

\* a check answered at the very instant the stored window, with its quota
\* used up, ended
C9_Witness ==
    /\ AnsweredCheck
    /\ last.op.pre # NoWindow
    /\ last.op.pre.count >= last.op.m
    /\ last.op.now = last.op.pre.resetTime
    /\ last.res.allowed

\* C10: a completed reset(k) followed by check(k, m, w), nothing on k in
\* between, returns allowed=true with remaining = m - 1.
C10_CheckAfterReset ==
    (AnsweredCheck /\ last.op.afterReset)
        => /\ last.res.allowed
           /\ last.res.remaining = last.op.m - 1

\* a check answered right after the reset of a key whose quota was used up
C10_Witness ==
    /\ AnsweredCheck
    /\ last.op.afterReset
    /\ last.res.allowed
    /\ opsStarted = MaxOps

\* an answered check that found a window still running
AnsweredLive ==
    /\ AnsweredCheck
    /\ last.op.pre # NoWindow
    /\ last.op.now < last.op.pre.resetTime

\* what C11 says of every denied check, up to the upper bound of retryAfter
DeniedAnswer ==
    /\ ~last.res.allowed
    /\ last.res.remaining = 0
    /\ last.res.retryAfter = CeilSeconds(last.op.pre.resetTime - last.op.now)
    /\ last.res.retryAfter >= 1
    /\ last.mem = last.op.pre
    /\ last.sto = last.op.sto0

\* C11 (as stated): a check on a live window with count >= maxRequests is
\* denied with remaining 0 and retryAfter = ceil((resetTime - now)/1000),
\* between 1 and ceil(windowMs/1000) for the windowMs of that check, and
\* leaves the window unchanged in the map and in storage.
C11_DeniedWithinOwnWindow ==
    (AnsweredLive /\ last.op.pre.count >= last.op.m)
        => /\ DeniedAnswer
           /\ last.res.retryAfter <= CeilSeconds(last.op.w)

\* C11 (amended): the same, with retryAfter at most ceil(W/1000) for the
\* windowMs W of the check that opened the window.
C11_DeniedWithinOpenedWindow ==
    (AnsweredLive /\ last.op.pre.count >= last.op.m)
        => /\ DeniedAnswer
           /\ last.res.retryAfter <= CeilSeconds(last.op.openW0)

\* a denied check that has to wait two seconds, its window read from
\* storage after an eviction
C11_Witness ==
    /\ AnsweredLive
    /\ last.op.pre.count >= last.op.m
    /\ ~last.res.allowed
    /\ last.res.retryAfter = 2
    /\ last.op.sto0 = last.op.pre
    /\ last.mem = last.op.pre

\* C12: a check on a live window with count < maxRequests is allowed, adds
\* exactly 1 to the count, reports remaining = maxRequests - new count and no
\* retryAfter, and storage holds the incremented window when it returns.
C12_AllowedIncrements ==
    (AnsweredLive /\ last.op.pre.count < last.op.m)
        => /\ last.res.allowed
           /\ last.mem = [last.op.pre EXCEPT !.count = @ + 1]
           /\ last.res.remaining = last.op.m - last.mem.count
           /\ last.res.resetTime = last.op.pre.resetTime
           /\ last.res.retryAfter = -1
           /\ last.sto = last.mem

\* the second allowed check of a window with maxRequests = MaxM
C12_Witness ==
    /\ AnsweredLive
    /\ last.op.pre.count = MaxM - 1
    /\ last.op.m = MaxM
    /\ last.res.allowed
    /\ last.res.remaining = 0

\* C13: whenever the call to the rate-limiter durable object throws or its
\* reply cannot be read, RateLimitService.checkRateLimit returns (it does
\* not throw) allowed=true with remaining = maxRequests and no retryAfter.
C13_FailOpen ==
    (svcPc = "idle" /\ svcCause \in {"unreachable", "threw", "unreadable"})
        => /\ svcRes.status = "ok"
           /\ svcRes.allowed
           /\ svcRes.remaining = svcOp.m
           /\ svcRes.retryAfter = -1

\* storage rejected the put of a check that used up the quota held in the
\* map, and the service answered allowed
C13_Witness ==
    /\ svcPc = "idle"
    /\ svcCause = "threw"
    /\ svcRes.allowed
    /\ requests[svcOp.key] # NoWindow
    /\ requests[svcOp.key].count >= svcOp.m
    /\ clock < requests[svcOp.key].resetTime

(***************************************************************************)
(* Discovery: properties                                                   *)
(***************************************************************************)
\* the items of the answers a source obtained, as the source returns them
RECURSIVE ItemsOf(_, _)
ItemsOf(source, answers) ==
    IF answers = <<>> THEN <<>>
    ELSE (IF source = "reddit"
            THEN ParseRedditContent(Head(answers)[2], Head(answers)[1])
            ELSE ParseNewsArticles(Head(answers)[2], Head(answers)[1]))
           \o ItemsOf(source, Tail(answers))

ValidItems(source) ==
    IF source \in dSources THEN Take(ItemsOf(source, served[source]), SourceLimit) ELSE <<>>

\* every query of the source needed a fetch and every fetch failed
FailedEveryFetch(source) ==
    /\ source \in dSources
    /\ fetchFailed[source] > 0
    /\ fetchOk[source] = 0
    /\ source = "reddit" => cacheHits = 0

\* C4: when one requested source failed on every fetch and no fetch of
\* another source failed, the run returns the valid items of the other
\* sources, ranked and cut to maxItems, and no item of the failing source.
C4_FailingSourceIsolated ==
    \A f \in {"reddit", "news"} :
        (/\ dPc = "done"
         /\ FailedEveryFetch(f)
         /\ \A s \in {"reddit", "news"} \ {f} : fetchFailed[s] = 0)
            => /\ dResult = Take(SortByScore(
                                   (IF f = "reddit" THEN <<>> ELSE ValidItems("reddit"))
                                     \o (IF f = "news" THEN <<>> ELSE ValidItems("news"))),
                                 dMaxItems)
               /\ \A i \in 1..Len(dResult) : dResult[i].source # f

C4_Witness ==
    /\ dPc = "done"
    /\ dSources = {"reddit", "news"}
    /\ FailedEveryFetch("reddit")
    /\ fetchFailed.reddit = Len(Subreddits)
    /\ fetchFailed.news = 0
    /\ Len(dResult) = 2
    /\ \A i \in 1..Len(dResult) : dResult[i].source = "news"

\* C14: the sequence one run returns holds no two items with the same
\* natural key (same source and same source-native id, hence same URL).
C14_NoDuplicateKeys ==
    (dPc = "done") =>
        \A i, j \in 1..Len(dResult) :
            i # j => ~(/\ dResult[i].source = dResult[j].source
                       /\ dResult[i].id = dResult[j].id)

\* the composite key 0.7 * quality + 0.3 * (1 - min(ageDays, 1)), in units
\* of 1/24000
CompositeKey(item) == 7 * item.quality + 7200 - 300 * Min(item.hoursOld, 24)

\* C15: the returned sequence has at most maxItems items and is in
\* non-increasing order of the composite key.
C15_RankedByCompositeKey ==
    (dPc = "done") =>
        /\ Len(dResult) <= dMaxItems
        /\ \A i, j \in 1..Len(dResult) :
              i < j => CompositeKey(dResult[i]) >= CompositeKey(dResult[j])

\* C20: a discoverContent run in progress can always take a step towards
\* its return, also while the fetch of a source stays unanswered: the source
\* is given up after a bounded time and the run returns what the others found.
C20_RunAlwaysProceeds == (dPc = "running") => ENABLED RunStep

(***************************************************************************)
(* Publishing: properties                                                  *)
(***************************************************************************)
\* C3: whatever the sequence of publish attempts, lost responses and
\* retries, at most one post exists on the page for a contentId.
C3_AtMostOnePost == \A c \in ContentIds : fbPosts[c] <= 1

(***************************************************************************)
(* Scheduling: properties                                                  *)
(***************************************************************************)
NonTerminal == {"queued", "scheduled", "posting"}

\* the status changes of the declared graph, the posting tick's
\* queued -> posting and posting -> queued included
DeclaredTransitions ==
    {<<"queued", "scheduled">>, <<"scheduled", "posting">>, <<"queued", "posting">>,
     <<"posting", "posted">>, <<"posting", "failed">>, <<"posting", "queued">>,
     <<"failed", "queued">>}
        \cup {<<st, "cancelled">> : st \in NonTerminal}

\* C5: every status change of a scheduling_queue row follows the declared
\* graph; any other requested change leaves the status as it was.
C5_OnlyDeclaredTransitions ==
    [][\A i \in 1..Len(queue) :
          \/ queue'[i].status = queue[i].status
          \/ <<queue[i].status, queue'[i].status>> \in DeclaredTransitions]_vars

\* C6: at most one row per contentId has a non-terminal status.
C6_OneActiveItemPerContent ==
    \A c \in ContentIds :
        Cardinality({i \in 1..Len(queue) :
                       queue[i].content_id = c /\ queue[i].status \in NonTerminal}) <= 1

\* C7: after every completed scheduling operation a content row is scheduled
\* exactly when it has a non-terminal queue row, and posted exactly when it
\* has a posted queue row.
C7_ContentMirrorsQueue ==
    (dbPc = "idle") =>
        \A c \in ContentIds :
            content[c].status # "none" =>
                /\ (content[c].status = "scheduled")
                      <=> (\E i \in 1..Len(queue) :
                              queue[i].content_id = c /\ queue[i].status \in NonTerminal)
                /\ (content[c].status = "posted")
                      <=> (\E i \in 1..Len(queue) :
                              queue[i].content_id = c /\ queue[i].status = "posted")

\* C16: scheduleContent ends, also when its second write fails, with the
\* new row (queued, retry_count 0) in the queue and the content row scheduled.
C16_ScheduleIsOneUnit ==
    [][(dbPc = "schedule" /\ dbPc' = "idle") =>
          /\ queue'[Len(queue')].content_id = dbArg
          /\ queue'[Len(queue')].status = "queued"
          /\ queue'[Len(queue')].retry_count = 0
          /\ content'[dbArg].status = "scheduled"]_vars

\* a row the posting tick has to process at time now
Due(row, now) == row.status \in {"queued", "scheduled"} /\ row.scheduled_time <= now

\* C8: a posting tick leaves every due row either posted or with its failure
\* recorded: retry_count one higher, error_message set, status queued while
\* retry_count < max_retry_attempts and else failed, the content row failed
\* with it.
C8_TickRecordsFailure ==
    [][(postingRuns' = postingRuns + 1) =>
          \A i \in 1..Len(queue) :
              Due(queue[i], clock) =>
                  \/ queue'[i].status = "posted"
                  \/ /\ queue'[i].retry_count = queue[i].retry_count + 1
                     /\ queue'[i].error_message
                     /\ IF queue'[i].retry_count < MaxRetryAttempts
                          THEN queue'[i].status = "queued"
                          ELSE /\ queue'[i].status = "failed"
                               /\ content'[queue[i].content_id].status = "failed"]_vars

\* C17: a posting tick processes exactly the rows that are queued or
\* scheduled with scheduled_time <= now, each once, in non-decreasing
\* scheduled_time order.
C17_TickSelectsDue ==
    [][(postingRuns' = postingRuns + 1) =>
          /\ \A i \in 1..Len(queue) :
                Due(queue[i], clock) <=> (\E n \in 1..Len(tickItems') : tickItems'[n] = i)
          /\ \A n, k \in 1..Len(tickItems') :
                n < k => /\ tickItems'[n] # tickItems'[k]
                         /\ queue[tickItems'[n]].scheduled_time
                               <= queue[tickItems'[k]].scheduled_time]_vars

\* C18: a posted row carrying its fb_post_id has its content row posted with
\* posted_at set, and posted_at is set on no content row whose status is not
\* posted.
C18_PostedBookkeeping ==
    (dbPc = "idle") =>
        /\ \A i \in 1..Len(queue) :
              (queue[i].status = "posted" /\ queue[i].fb_post_id)
                  => /\ content[queue[i].content_id].status = "posted"
                     /\ content[queue[i].content_id].posted_at # -1
        /\ \A c \in ContentIds :
              content[c].posted_at # -1 => content[c].status = "posted"

(***************************************************************************)
(* Outbound calls: properties                                              *)
(***************************************************************************)
\* C19: a publish call (POST /photos or POST /feed) is sent only by an
\* operation holding an allowed=true answer of the rate limiter for the
\* Facebook key.
C19_PublishAfterAllowedCheck ==
    [][\A c \in ContentIds :
          (pubPc[c] = "idle" /\ pubPc'[c] \in {"feed", "photos"})
              => /\ svcCause # "none"
                 /\ svcOp.key \in Keys
                 /\ svcRes.allowed]_vars

\* C27: the window of a key is replaced only by a check made at
\* now >= resetTime, which leaves count = 1 (0, then the increment) and
\* resetTime = now + windowMs; a check made at now < resetTime, allowed or
\* denied, leaves resetTime alone, and the resetTime of a key never decreases.
C27_WindowReplacedOnlyOnExpiry ==
    [][\A k \in Keys :
          /\ (/\ requests[k] # NoWindow
              /\ requests'[k] # NoWindow
              /\ requests'[k].resetTime # requests[k].resetTime)
                => /\ clock >= requests[k].resetTime
                   /\ requests'[k].count = 1
                   /\ \E w \in Windows : requests'[k].resetTime = clock + w
                   /\ requests'[k].resetTime > requests[k].resetTime
          /\ (/\ storage[k] # NoWindow
              /\ storage'[k] # NoWindow
              /\ storage'[k].resetTime # storage[k].resetTime)
                => /\ clock >= storage[k].resetTime
                   /\ storage'[k].resetTime > storage[k].resetTime ]_vars

\* a check made after the end of the window held by the map was answered, and
\* the map holds the window it opened
C27_Witness ==
    /\ AnsweredCheck
    /\ last.op.pre # NoWindow
    /\ last.op.now > last.op.pre.resetTime
    /\ requests[last.op.key] = [count |-> 1, resetTime |-> last.op.now + last.op.w]
    /\ requests[last.op.key].resetTime > last.op.pre.resetTime

\* C29: whenever no check or reset is in progress, every key of the map has
\* the same count and resetTime in storage.
C29_MapMirrorsStorage ==
    Idle => \A k \in Keys : requests[k] # NoWindow => storage[k] = requests[k]

\* C30: a check of k that read storage before a reset(k) and resumes after the
\* reset completed does not bring back the window the reset removed: the map
\* does not end up holding the window that check had read, nor a count built
\* on it.
C30_ResetNotUndone ==
    [][\A p \in Procs :
          (/\ pc[p] = "got"
           /\ pc'[p] # "got"
           /\ op[p].stale
           /\ loaded[p] # NoWindow
           /\ fresh[op[p].key])
             => ~(/\ requests'[op[p].key].resetTime = loaded[p].resetTime
                  /\ requests'[op[p].key].count >= loaded[p].count) ]_vars

(***************************************************************************)
(* ContentDiscoveryService: properties of the scorers, the filter and the  *)
(* sort                                                                    *)
(***************************************************************************)
\* C21: the quality computed for a Reddit post or a news article lies in
\* [0, 1] (0..2400 in the model's units) for every score, comment count and
\* age, creation times in the future included.
C21_QualityInUnitRange ==
    scored.kind # "none" => (scored.quality >= 0 /\ scored.quality <= 2400)

\* a Reddit post created in the future whose bonuses add up to more than 1
\* was scored
C21_Witness ==
    /\ scored.kind = "reddit"
    /\ scored.hoursOld < 0
    /\ scored.recency > 240
    /\ scored.quality = 2400

\* C26: the recency part of a Reddit post's quality is 0.1 * (1 - hoursOld/24)
\* limited to [0, 0.1] under 24 hours and 0 from 24 hours on: a post created
\* in the future gets at most 0.1.
C26_RecencyLimited ==
    scored.kind = "reddit" =>
        scored.recency = (IF scored.hoursOld < 24
                            THEN Max(0, Min(240 - 10 * scored.hoursOld, 240))
                            ELSE 0)

\* the indices of the items of filterContent's input that a criterion keeps
KeptIdx(kept(_)) == {i \in 1..Len(filtered.content) : kept(filtered.content[i])}

\* out holds exactly the input items a criterion keeps, in input order
IsSelection(out, kept(_)) ==
    /\ Len(out) = Cardinality(KeptIdx(kept))
    /\ \A j \in 1..Len(out) :
          \E i \in KeptIdx(kept) :
              /\ Cardinality({x \in KeptIdx(kept) : x <= i}) = j
              /\ out[j] = filtered.content[i]

\* the claim's criterion: quality and age within the arguments, and not a
\* text item without any media
KeptWithMedia(item) ==
    /\ item.quality >= filtered.minQuality
    /\ item.hoursOld <= filtered.maxAge
    /\ ~(item.contentType = "text" /\ ~item.imageUrl /\ ~item.videoUrl)

\* the criterion with the image URL as the only media looked at
KeptWithImage(item) ==
    /\ item.quality >= filtered.minQuality
    /\ item.hoursOld <= filtered.maxAge
    /\ ~(item.contentType = "text" /\ ~item.imageUrl)

KeyOrder == <<"a", "b", "c", "w", "x", "y", "z">>

NaturalKeyPlace(item) == CHOOSE i \in 1..Len(KeyOrder) : KeyOrder[i] = item.id

\* C23: items of the result whose ranking scores are equal are ordered by
\* their natural key, whatever the order in which the source results were
\* concatenated.
C23_TiesByNaturalKey ==
    \A i, j \in 1..Len(ranked.out) :
        (i < j /\ RankScore(ranked.out[i]) = RankScore(ranked.out[j]))
            => NaturalKeyPlace(ranked.out[i]) <= NaturalKeyPlace(ranked.out[j])

\* the answers a source obtained, without their malformed items (posts
\* without url, articles without title)
WellFormedAnswers(source) ==
    [i \in 1..Len(served[source]) |->
        <<served[source][i][1],
          SelectSeq(served[source][i][2],
                    LAMBDA x : IF source = "reddit" THEN x.hasUrl ELSE x.hasTitle)>>]

\* C24: a malformed raw item (a news article without title, a Reddit post
\* without url) is dropped alone: a source whose fetches were all answered
\* returns the items of every well-formed raw item of its answers, those of
\* the answer holding the malformed item and those of earlier queries alike.
C24_MalformedItemDroppedAlone ==
    \A s \in {"reddit", "news"} :
        (s \in dSources /\ settled[s].status = "fulfilled" /\ fetchFailed[s] = 0)
            => settled[s].value = Take(ItemsOf(s, WellFormedAnswers(s)), SourceLimit)

\* C25: a run of discoverContent in which an operation on the KV cache
\* failed does not return a normal result.
C25_PersistenceFailureSurfaces ==
    kvFailed => dPc # "done"

\* the cache entries of a subreddit written less than 3600 seconds ago
FreshIdx(sub) == {i \in 1..Len(redditCache[sub]) : redditCache[sub][i].age < 3600}

\* the answer just recorded for the Reddit source
LastServed == served'["reddit"][Len(served'["reddit"])]

\* C28: for the subreddit a run is at: when its cache holds an entry written
\* less than 3600 seconds ago, the most recently written such entry is used
\* and nothing is fetched or written; otherwise the subreddit is fetched, an
\* answered fetch writes exactly one new entry holding the answer, and a
\* failed fetch writes none and the run goes on to the next subreddit.
C28_CacheBeforeFetch ==
    [][(dPc = "running" /\ redditIdx > 0 /\ redditIdx' # redditIdx) =>
          LET sub == Subreddits[redditIdx]
          IN  IF FreshIdx(sub) # {}
                THEN /\ fetchOk' = fetchOk /\ fetchFailed' = fetchFailed
                     /\ redditCache' = redditCache
                     /\ Len(served'["reddit"]) = Len(served["reddit"]) + 1
                     /\ \E i \in FreshIdx(sub) :
                           /\ \A j \in FreshIdx(sub) : j <= i
                           /\ LastServed = <<sub, redditCache[sub][i].data>>
                ELSE /\ fetchOk'.reddit + fetchFailed'.reddit
                           = fetchOk.reddit + fetchFailed.reddit + 1
                     /\ fetchOk' # fetchOk =>
                           /\ Len(served'["reddit"]) = Len(served["reddit"]) + 1
                           /\ LastServed[1] = sub
                           /\ redditCache' = [redditCache EXCEPT ![sub] =
                                    Append(@, [age |-> 0, data |-> LastServed[2]])]
                     /\ fetchFailed' # fetchFailed =>
                           /\ redditCache' = redditCache
                           /\ served' = served
                           /\ IF redditIdx < Len(Subreddits)
                                THEN redditIdx' = redditIdx + 1
                                       /\ redditDiscovered' = redditDiscovered
                                ELSE settled'["reddit"]
                                       = Fulfilled(Take(redditDiscovered, SourceLimit)) ]_vars

\* a finished run that found two fresh entries with different posts for one
\* subreddit, took the newer one, and for the other subreddits had fetches
\* answered and a fetch failed
C28_Witness ==
    /\ dPc = "done"
    /\ cacheHits = 1
    /\ Len(redditCache[Subreddits[2]]) = 2
    /\ redditCache[Subreddits[2]][1].age < 3600
    /\ redditCache[Subreddits[2]][1].data # redditCache[Subreddits[2]][2].data
    /\ served["reddit"][2] = <<Subreddits[2], redditCache[Subreddits[2]][2].data>>
    /\ fetchFailed.reddit > 0
    /\ fetchOk.reddit > 0

====
